---- MODULE Spec2Model ----
(***************************************************************************)
(* Shader Lab 3D: the shader validation-and-hot-swap pipeline.             *)
(*                                                                         *)
(* App (src/App.tsx) holds the draft pair (editorVertex, editorFragment),  *)
(* the submitted pair (activeVertex, activeFragment), the diagnostic       *)
(* (errorMsg, isConsoleOpen), the uniform declarations and the lights.     *)
(* ShaderMesh (src/types.ts, ShaderScene component) holds the safe pair    *)
(* (safeVertex, safeFragment), validates the submitted pair in an effect   *)
(* and reconciles the declarations with the material's uniform table.      *)
(*                                                                         *)
(* React is modelled as follows.  An event handler runs atomically; when   *)
(* it changes App state, App renders again, and because handleShaderError  *)
(* and handleShaderSuccess are new closures on every App render, the       *)
(* dependency list of the validation effect changes: the effect is         *)
(* pending (effectPending).  State updates made in one handler or one      *)
(* effect are batched into one render.  Handlers and timers run only when  *)
(* no effect is pending (passive effects are flushed before the next       *)
(* update is processed).                                                   *)
(*                                                                         *)
(* Text (compiler logs, diagnostics) is a sequence of tokens; a token is   *)
(* either a literal piece of text or a run of decimal digits.              *)
(***************************************************************************)
EXTENDS Integers, Sequences, FiniteSets, TLC

VARIABLES
  activePresetIndex,  \* App: index of the preset last loaded
  editorVertex,       \* App: draft vertex source
  editorFragment,     \* App: draft fragment source
  activeVertex,       \* App: submitted vertex source (prop vertexShader)
  activeFragment,     \* App: submitted fragment source (prop fragmentShader)
  errorMsg,           \* App: diagnostic text, NoError for null
  isConsoleOpen,      \* App: error console expanded
  timers,             \* pending setTimeout callbacks of handleRun, FIFO
  safeVertex,         \* ShaderMesh: last validated vertex source
  safeFragment,       \* ShaderMesh: last validated fragment source
  effectPending,      \* the validation effect is scheduled
  gl,                 \* the WebGL context of the last validation attempt
  customUniforms,     \* App: the uniform declarations
  lights,             \* App: the lights
  nextId,             \* number of ids Math.random has given so far
  uniforms,           \* ShaderMesh: the uniform table of the material
  syncPending,        \* the uniform/light sync effect is scheduled
  crashed,            \* an effect threw: React unmounted the tree
  elapsedTime,        \* state.clock.elapsedTime at the last frame
  frameThrew,         \* the last useFrame callback threw
  normalizer,         \* one call of parseErrorLog: its arguments and result
  released,           \* history: the declaration whose binding was removed
                      \* last, and whether a sync pass has run since
  reads               \* FileReader reads in flight started by handleFileUpload

vars == <<activePresetIndex, editorVertex, editorFragment, activeVertex,
          activeFragment, errorMsg, isConsoleOpen, timers, safeVertex,
          safeFragment, effectPending, gl, customUniforms, lights, nextId,
          uniforms, syncPending, crashed, elapsedTime, frameThrew,
          normalizer, released, reads>>

sceneVars == <<customUniforms, lights, nextId, uniforms, syncPending,
               crashed, elapsedTime, frameThrew, normalizer, released,
               reads>>

(***************************************************************************)
(* Bounds                                                                  *)
(***************************************************************************)
MaxTimers == 1
MaxIds == 2
MaxClock == 1
MaxLogParts == 3
MaxLights == 5
MaxAdds == 4
MaxReads == 1

(***************************************************************************)
(* Text                                                                    *)
(***************************************************************************)
Txt(s) == [kind |-> "txt", s |-> s, n |-> 0]
Num(n) == [kind |-> "num", s |-> "", n |-> n]
NL == Txt("\n")

Max(a, b) == IF a >= b THEN a ELSE b

\* JS null for errorMsg; a real diagnostic always starts with its label.
NoError == <<>>

(***************************************************************************)
(* Preambles and line offsets (types.ts 205-232)                           *)
(***************************************************************************)
THREE_VERTEX_PREFIX ==
  << NL,
     Txt("#define SHADER_NAME ShaderMaterial"), NL,
     Txt("#define VERTEX"), NL,
     Txt("precision highp float;"), NL,
     Txt("uniform mat4 modelMatrix;"), NL,
     Txt("uniform mat4 modelViewMatrix;"), NL,
     Txt("uniform mat4 projectionMatrix;"), NL,
     Txt("uniform mat4 viewMatrix;"), NL,
     Txt("uniform mat3 normalMatrix;"), NL,
     Txt("uniform vec3 cameraPosition;"), NL,
     Txt("attribute vec3 position;"), NL,
     Txt("attribute vec3 normal;"), NL,
     Txt("attribute vec2 uv;"), NL >>

THREE_FRAGMENT_PREFIX ==
  << NL,
     Txt("#define SHADER_NAME ShaderMaterial"), NL,
     Txt("#define FRAGMENT"), NL,
     Txt("precision highp float;"), NL,
     Txt("uniform mat4 viewMatrix;"), NL,
     Txt("uniform vec3 cameraPosition;"), NL >>

\* lines counted as str.split('\n').length
countLines_Split(str) == Cardinality({i \in 1..Len(str) : str[i] = NL}) + 1

countLines(str) == Cardinality({i \in 1..Len(str) : str[i] = NL})

\* the vertex offset counted on the wrong preamble
VERTEX_OFFSET_Fragment == countLines(THREE_FRAGMENT_PREFIX)

VERTEX_OFFSET == countLines(THREE_VERTEX_PREFIX)
FRAGMENT_OFFSET == countLines(THREE_FRAGMENT_PREFIX)

(***************************************************************************)
(* Diagnostic normalizer (types.ts 234-241)                                *)
(***************************************************************************)
\* /ERROR: \d+:(\d+):/ matches at position i of the token sequence
RegexMatchesAt(log, i) ==
  /\ i + 4 <= Len(log)
  /\ log[i] = Txt("ERROR: ")
  /\ log[i + 1].kind = "num"
  /\ log[i + 2] = Txt(":")
  /\ log[i + 3].kind = "num"
  /\ log[i + 4] = Txt(":")

\* a normalizer that subtracts the offset without Math.max(1, ..)
RECURSIVE parseErrorLog_NoClamp(_, _)
parseErrorLog_NoClamp(log, offset) ==
  IF log = <<>> THEN <<>>
  ELSE IF RegexMatchesAt(log, 1)
       THEN <<Txt("ERROR: line "), Num(log[4].n - offset), Txt(":")>>
              \o parseErrorLog_NoClamp(SubSeq(log, 6, Len(log)), offset)
       ELSE <<log[1]>> \o parseErrorLog_NoClamp(Tail(log), offset)

RECURSIVE parseErrorLog(_, _)
parseErrorLog(log, offset) ==
  IF log = <<>> THEN <<>>
  ELSE IF RegexMatchesAt(log, 1)
       THEN LET adjusted == Max(1, log[4].n - offset)
            IN  <<Txt("ERROR: line "), Num(adjusted), Txt(":")>>
                  \o parseErrorLog(SubSeq(log, 6, Len(log)), offset)
       ELSE <<log[1]>> \o parseErrorLog(Tail(log), offset)

(***************************************************************************)
(* Shader sources (constants.ts) and the drafts a user types               *)
(***************************************************************************)
DEFAULT_VERTEX_SHADER == "default.vert"
TEXTURE_VERTEX_SHADER == "texture.vert"

\* Two of the five presets: the first one and the texture preset; the
\* other three have the shape of the first (no 'Textura' in the name).
SHADER_PRESETS ==
  << [name |-> <<"Basico", " (Normales)">>,
      vertex |-> DEFAULT_VERTEX_SHADER, fragment |-> "normals.frag"],
     [name |-> <<"Textura", " (Imagen)">>,
      vertex |-> TEXTURE_VERTEX_SHADER, fragment |-> "texture.frag"] >>

PresetIndices == 1..Len(SHADER_PRESETS)

includes(name, piece) == \E i \in 1..Len(name) : name[i] = piece

\* the custom uniform names a source declares besides the built-in ones
DeclaredUniforms(source) ==
  CASE source = "texture.frag" -> {"u_texture"}
    [] OTHER -> {}

\* Two valid pairs of sources with line comments around a "-": the long
\* vertex source is the short one followed by "-//", the long fragment
\* source is "//-" followed by the short one.
KEY_VERTEX_SHORT == "void main(){gl_Position=vec4(0.);}//"
KEY_VERTEX_LONG == "void main(){gl_Position=vec4(0.);}//-//"
KEY_FRAGMENT_SHORT == "\nvoid main(){gl_FragColor=vec4(1.);}"
KEY_FRAGMENT_LONG == "//-\nvoid main(){gl_FragColor=vec4(1.);}"

KeyVertexDrafts == {KEY_VERTEX_SHORT, KEY_VERTEX_LONG}
KeyFragmentDrafts == {KEY_FRAGMENT_SHORT, KEY_FRAGMENT_LONG}

\* What the user types in the two editor tabs.
VertexDrafts == {DEFAULT_VERTEX_SHADER, "broken.vert"}
FragmentDrafts == {"normals.frag", "broken.frag", "mismatch.frag"}

(***************************************************************************)
(* The GPU compiler oracle (WebGL2 context, types.ts 289-341).             *)
(* A compile or link that fails has a non-empty info log.                  *)
(***************************************************************************)
VERTEX_SHADER == "VERTEX_SHADER"
FRAGMENT_SHADER == "FRAGMENT_SHADER"

UserSource(source) == source[Len(source)].s

\* gl.getShaderParameter(shader, gl.COMPILE_STATUS)
COMPILE_STATUS(type, source) ==
  IF type = VERTEX_SHADER
  THEN /\ SubSeq(source, 1, Len(source) - 1) = THREE_VERTEX_PREFIX
       /\ UserSource(source) \in {DEFAULT_VERTEX_SHADER, TEXTURE_VERTEX_SHADER}
                                    \cup KeyVertexDrafts
  ELSE /\ SubSeq(source, 1, Len(source) - 1) = THREE_FRAGMENT_PREFIX
       /\ UserSource(source) \in {"normals.frag", "texture.frag", "mismatch.frag"}
                                    \cup KeyFragmentDrafts

\* gl.getShaderInfoLog(shader): the compiler counts the lines of the whole
\* source it was given, preamble included.
getShaderInfoLog(type, source) ==
  IF type = VERTEX_SHADER
  THEN << Txt("ERROR: "), Num(0), Txt(":"), Num(countLines(THREE_VERTEX_PREFIX) + 2),
          Txt(":"), Txt(" 'foo' : undeclared identifier"), NL >>
  ELSE << Txt("ERROR: "), Num(0), Txt(":"), Num(countLines(THREE_FRAGMENT_PREFIX) + 1),
          Txt(":"), Txt(" 'gl_FragColor' : syntax error"), NL >>

\* gl.getProgramParameter(program, gl.LINK_STATUS): mismatch.frag reads a
\* varying that no vertex source writes.
LINK_STATUS(vsSource, fsSource) == UserSource(fsSource) # "mismatch.frag"

getProgramInfoLog == << Txt("FRAGMENT varying vGlow does not match any VERTEX varying"), NL >>

Call(op, type, h) == [op |-> op, type |-> type, h |-> h]

PROGRAM == "PROGRAM"

\* handles created on the context and not deleted on it
LiveHandles(calls) ==
  {calls[i].h : i \in {j \in 1..Len(calls) :
                         calls[j].op \in {"createShader", "createProgram"}}}
  \ {calls[i].h : i \in {j \in 1..Len(calls) :
                         calls[j].op \in {"deleteShader", "deleteProgram"}}}

(***************************************************************************)
(* ShaderMesh: validation logic (types.ts 287-348)                         *)
(***************************************************************************)
\* 2. Compile Function; h is the handle gl.createShader returns
compile(type, source, h) ==
  LET made == << Call("createShader", type, h), Call("shaderSource", type, h),
                 Call("compileShader", type, h),
                 Call("getShaderParameter", type, h) >>
  IN  IF ~COMPILE_STATUS(type, source)
      THEN [error |-> getShaderInfoLog(type, source), shader |-> 0,
            calls |-> made \o << Call("getShaderInfoLog", type, h),
                                 Call("deleteShader", type, h) >>]
      ELSE [error |-> <<>>, shader |-> h, calls |-> made]

\* The body of the validation effect for the props (vertexShader,
\* fragmentShader): the oracle calls it makes, in order, and its outcome.
Validation(vertexShader, fragmentShader) ==
  LET vsSource == THREE_VERTEX_PREFIX \o <<Txt(vertexShader)>>
      fsSource == THREE_FRAGMENT_PREFIX \o <<Txt(fragmentShader)>>
      vsResult == compile(VERTEX_SHADER, vsSource, 1)
      fsResult == compile(FRAGMENT_SHADER, fsSource, 2)
      compiled == vsResult.calls \o fsResult.calls
      program == 3
      linking == << Call("createProgram", PROGRAM, program),
                    Call("attachShader", VERTEX_SHADER, vsResult.shader),
                    Call("attachShader", FRAGMENT_SHADER, fsResult.shader),
                    Call("linkProgram", PROGRAM, program),
                    Call("getProgramParameter", PROGRAM, program) >>
      cleanup == << Call("deleteShader", VERTEX_SHADER, vsResult.shader),
                    Call("deleteShader", FRAGMENT_SHADER, fsResult.shader),
                    Call("deleteProgram", PROGRAM, program) >>
  IN  IF vsResult.error # <<>>
      THEN [outcome |-> "vertex", calls |-> compiled,
            vsSource |-> vsSource, fsSource |-> fsSource,
            msg |-> <<Txt("VERTEX SHADER ERROR:"), NL>>
                      \o parseErrorLog(vsResult.error, VERTEX_OFFSET)]
      ELSE IF fsResult.error # <<>>
      THEN [outcome |-> "fragment", calls |-> compiled,
            vsSource |-> vsSource, fsSource |-> fsSource,
            msg |-> <<Txt("FRAGMENT SHADER ERROR:"), NL>>
                      \o parseErrorLog(fsResult.error, FRAGMENT_OFFSET)]
      ELSE IF ~LINK_STATUS(vsSource, fsSource)
      THEN [outcome |-> "link",
            vsSource |-> vsSource, fsSource |-> fsSource,
            calls |-> compiled \o linking
                        \o <<Call("getProgramInfoLog", PROGRAM, program)>>,
            msg |-> <<Txt("LINKER ERROR (Varying Mismatch?):"), NL>>
                      \o getProgramInfoLog]
      ELSE [outcome |-> "success", calls |-> compiled \o linking \o cleanup,
            vsSource |-> vsSource, fsSource |-> fsSource,
            msg |-> NoError]

(***************************************************************************)
(* JavaScript values held by declarations and by the uniform table.        *)
(* Numbers are in tenths (0.5 is 5); c holds the numeric components.       *)
(***************************************************************************)
Value(kind, c, s, wrap) == [kind |-> kind, c |-> c, s |-> s, wrap |-> wrap]
Number(n) == Value("number", <<n>>, "", "")
Array(c) == Value("array", c, "", "")
String(s) == Value("string", <<>>, s, "")
Vector2(x, y) == Value("Vector2", <<x, y>>, "", "")
Vector3(x, y, z) == Value("Vector3", <<x, y, z>>, "", "")
Vector4(x, y, z, w) == Value("Vector4", <<x, y, z, w>>, "", "")

\* a missing array element or argument
undefined == -999

IsArray(v) == v.kind = "array"
\* v[i] of a JS array, 0-based
At(v, i) == IF i + 1 <= Len(v.c) THEN v.c[i + 1] ELSE undefined
\* a THREE.Vector constructor argument defaults to 0 when undefined
Arg(v, i) == IF At(v, i) = undefined THEN 0 ELSE At(v, i)

\* Matrix3/Matrix4 .fromArray(v) copies the first n elements
fromArray(kind, n, v) == Value(kind, [i \in 1..n |-> At(v, i - 1)], "", "")

ClampToEdgeWrapping == "ClampToEdgeWrapping"
RepeatWrapping == "RepeatWrapping"
MirroredRepeatWrapping == "MirroredRepeatWrapping"

\* new THREE.TextureLoader().load(url): a new Texture, returned at once
TextureLoader_load(url) == Value("Texture", <<>>, url, ClampToEdgeWrapping)

\* c of a Texture is its image: none until the decode started by load
\* completes, then the decoded image (written 1)
Decoded(texture) == [texture EXCEPT !.c = <<1>>]

IsPrimitive(v) == v.kind \in {"number", "string", "undefined"}
IsVector(v) == v.kind \in {"Vector2", "Vector3", "Vector4"}

\* overwrite the first Len(xs) components a vector has
SetComponents(v, xs) ==
  [v EXCEPT !.c = [i \in 1..Len(v.c) |-> IF i <= Len(xs) THEN xs[i] ELSE v.c[i]]]

(***************************************************************************)
(* Uniform types and wrap modes (types.ts 1-22, 243-250)                   *)
(***************************************************************************)
FLOAT == "float"
VEC2 == "vec2"
VEC3 == "vec3"
VEC4 == "vec4"
MAT3 == "mat3"
MAT4 == "mat4"
SAMPLER_2D == "sampler2D"

getWrapMode(mode) ==
  CASE mode = "CLAMP" -> ClampToEdgeWrapping
    [] mode = "MIRROR" -> MirroredRepeatWrapping
    [] OTHER -> RepeatWrapping

(***************************************************************************)
(* ShaderMesh: the uniform table (types.ts 350-362).  The object is        *)
(* memoized with an empty dependency list and handed to every material     *)
(* built for the mesh: materialRef.current.uniforms is this object.        *)
(***************************************************************************)
BuiltinUniforms ==
  [ u_time |-> Number(0),
    u_resolution |-> Vector2(0, 0),
    u_mouse |-> Vector2(0, 0),
    u_cameraPosition |-> Vector3(0, 0, 0),
    u_lightPos |-> Value("Vector3[]", [i \in 1..12 |-> 0], "", ""),
    u_lightColor |-> Value("Vector3[]", [i \in 1..12 |-> 0], "", ""),
    u_lightIntensity |-> Array(<<0, 0, 0, 0>>) ]

BuiltinNames == DOMAIN BuiltinUniforms

\* materialRef.current.uniforms[name] = { value }
SetEntry(table, name, value) ==
  [n \in (DOMAIN table) \cup {name} |-> IF n = name THEN value ELSE table[n]]

(***************************************************************************)
(* ShaderMesh: live update of uniforms and lights (types.ts 364-442)       *)
(***************************************************************************)
\* the value a declaration is converted to
initialValue(cu) ==
  LET v == cu.value
  IN  CASE cu.type = VEC3 /\ IsArray(v) -> Vector3(Arg(v, 0), Arg(v, 1), Arg(v, 2))
        [] cu.type = VEC2 /\ IsArray(v) -> Vector2(Arg(v, 0), Arg(v, 1))
        [] cu.type = VEC4 /\ IsArray(v) ->
             Vector4(Arg(v, 0), Arg(v, 1), Arg(v, 2),
                     IF At(v, 3) = undefined THEN 10 ELSE At(v, 3))
        [] cu.type = MAT3 /\ IsArray(v) -> fromArray("Matrix3", 9, v)
        [] cu.type = MAT4 /\ IsArray(v) -> fromArray("Matrix4", 16, v)
        [] cu.type = SAMPLER_2D /\ v.kind = "string" -> TextureLoader_load(v.s)
        [] OTHER -> v

\* Handle Texture Wrapping
ApplyWrap(table, cu) ==
  LET texture == table[cu.name]
      wrapMode == getWrapMode(cu.wrap)
  IN  IF cu.type = SAMPLER_2D /\ texture.kind = "Texture"
           /\ texture.wrap # wrapMode
      THEN SetEntry(table, cu.name, [texture EXCEPT !.wrap = wrapMode])
      ELSE table

\* an iteration that creates missing entries and never updates one
SyncUniform_CreateOnly(table, cu) ==
  ApplyWrap(IF cu.name \in DOMAIN table THEN table
            ELSE SetEntry(table, cu.name, initialValue(cu)), cu)

\* an iteration that does not look at the binding
SyncUniform_Overwrite(table, cu) ==
  ApplyWrap(SetEntry(table, cu.name, initialValue(cu)), cu)

\* one iteration of customUniforms.forEach
SyncUniform(table, cu) ==
  LET stored == IF cu.name \in DOMAIN table
                THEN IF cu.binding = ""
                     THEN SetEntry(table, cu.name, initialValue(cu))
                     ELSE table
                ELSE SetEntry(table, cu.name, initialValue(cu))
  IN  ApplyWrap(stored, cu)

RECURSIVE SyncCustomUniforms(_, _)
SyncCustomUniforms(table, decls) ==
  IF decls = <<>> THEN table
  ELSE SyncCustomUniforms(SyncUniform(table, Head(decls)), Tail(decls))

\* new THREE.Color(hex): the colours the light controls are given here
Color(hex) ==
  CASE hex = "#ffffff" -> <<10, 10, 10>>
    [] hex = "#ff0000" -> <<10, 0, 0>>
    [] OTHER -> <<0, 0, 0>>

slice(seq, from, to) == SubSeq(seq, from + 1, IF to <= Len(seq) THEN to ELSE Len(seq))

\* components of slot i (0-based) of an array of four Vector3
SetSlot(v, i, xyz) ==
  [v EXCEPT !.c = [k \in 1..Len(v.c) |->
                     IF k \in (3 * i + 1)..(3 * i + 3) THEN xyz[k - 3 * i] ELSE v.c[k]]]

\* lightIntensities[i] = x on a JS array (i 0-based); on another object
\* the assignment makes a property that no one reads
SetIndex(v, i, x) ==
  IF IsArray(v)
  THEN [v EXCEPT !.c = [k \in 1..Max(Len(v.c), i + 1) |->
                          IF k = i + 1 THEN x
                          ELSE IF k <= Len(v.c) THEN v.c[k] ELSE undefined]]
  ELSE v

\* a reset loop that does nothing
ResetAll_Skip(v, i) == v

RECURSIVE ResetAll(_, _)
ResetAll(v, i) == IF i >= 4 THEN v ELSE ResetAll(SetIndex(v, i, 0), i + 1)

\* Sync Lights: threw is TRUE when a statement raises a TypeError
\* (an index assignment on a primitive, .set on something not a Vector3)
RECURSIVE FillSlots(_, _, _)
FillSlots(r, used, i) ==
  IF i >= Len(used) \/ r.threw THEN r
  ELSE LET light == used[i + 1]
           lightPositions == r.table["u_lightPos"]
           lightColors == r.table["u_lightColor"]
           lightIntensities == r.table["u_lightIntensity"]
       IN  IF lightPositions.kind # "Vector3[]"
           THEN [r EXCEPT !.threw = TRUE]
           ELSE LET t1 == SetEntry(r.table, "u_lightPos",
                                   SetSlot(lightPositions, i, light.position))
                IN  IF lightColors.kind # "Vector3[]"
                    THEN [table |-> t1, threw |-> TRUE]
                    ELSE LET t2 == SetEntry(t1, "u_lightColor",
                                     SetSlot(t1["u_lightColor"], i, Color(light.color)))
                             t3 == SetEntry(t2, "u_lightIntensity",
                                     SetIndex(t2["u_lightIntensity"], i, light.intensity))
                         IN  FillSlots([table |-> t3, threw |-> FALSE], used, i + 1)

SyncLights(table, lightList) ==
  LET lightIntensities == table["u_lightIntensity"]
  IN  IF IsPrimitive(lightIntensities)
      THEN [table |-> table, threw |-> TRUE]
      ELSE FillSlots([table |-> SetEntry(table, "u_lightIntensity",
                                         ResetAll(lightIntensities, 0)),
                      threw |-> FALSE],
                     slice(lightList, 0, 4), 0)

(***************************************************************************)
(* ShaderMesh: render loop (types.ts 444-470)                              *)
(***************************************************************************)
\* viewport size in device pixels and camera position of the scene
Resolution == <<800, 600>>
CameraPosition == <<0, 0, 60>>

\* (state.pointer.x + 1) / 2, in tenths
Normalized(p) == (p + 10) \div 2

\* uniform.value.x = ..; uniform.value.y = ..  (on an object)
SetXY(v, x, y) == IF IsVector(v) THEN SetComponents(v, <<x, y>>) ELSE v

\* Update Bindings
RECURSIVE UpdateBindings(_, _, _, _)
UpdateBindings(r, decls, elapsed, pointer) ==
  IF decls = <<>> \/ r.threw THEN r
  ELSE LET cu == Head(decls)
           rest == Tail(decls)
       IN  IF cu.binding = "" \/ cu.name \notin DOMAIN r.table
           THEN UpdateBindings(r, rest, elapsed, pointer)
           ELSE IF cu.binding = "TIME"
           THEN UpdateBindings([r EXCEPT !.table =
                                  SetEntry(r.table, cu.name, Number(elapsed))],
                               rest, elapsed, pointer)
           ELSE IF IsPrimitive(r.table[cu.name])
           THEN [r EXCEPT !.threw = TRUE]
           ELSE UpdateBindings([r EXCEPT !.table =
                                  SetEntry(r.table, cu.name,
                                    SetXY(r.table[cu.name],
                                          Normalized(pointer[1]),
                                          Normalized(pointer[2])))],
                               rest, elapsed, pointer)

\* the useFrame callback: the table after it and whether it threw
useFrame(table, elapsed, pointer, decls) ==
  LET t1 == SetEntry(table, "u_time", Number(elapsed))
      t2 == SetEntry(t1, "u_mouse",
                     SetXY(t1["u_mouse"], Normalized(pointer[1]),
                           Normalized(pointer[2])))
      t3 == SetEntry(t2, "u_resolution",
                     SetComponents(t2["u_resolution"], Resolution))
      t4 == SetEntry(t3, "u_cameraPosition",
                     SetComponents(t3["u_cameraPosition"], CameraPosition))
  IN  IF IsPrimitive(t1["u_mouse"]) THEN [table |-> t1, threw |-> TRUE]
      ELSE IF ~IsVector(t2["u_resolution"]) THEN [table |-> t2, threw |-> TRUE]
      ELSE IF ~IsVector(t3["u_cameraPosition"]) THEN [table |-> t3, threw |-> TRUE]
      ELSE UpdateBindings([table |-> t4, threw |-> FALSE], decls, elapsed, pointer)

(***************************************************************************)
(* ShaderMesh: material identity (types.ts 472-496)                        *)
(***************************************************************************)
materialKey(vertex, fragment) == vertex \o "-" \o fragment

\* a material that gets a fresh table whenever its key changes
shaderMaterial_Fresh(table, oldKey, newKey) ==
  IF oldKey # newKey THEN BuiltinUniforms ELSE table

\* a material that keeps only the built-in entries when its key changes
shaderMaterial_Builtins(table, oldKey, newKey) ==
  IF oldKey # newKey THEN [n \in BuiltinNames |-> table[n]] ELSE table

\* <shaderMaterial key={materialKey} uniforms={uniforms}/>: the table the
\* material holds after a render in which the key went from oldKey to newKey
shaderMaterial(table, oldKey, newKey) == table

(***************************************************************************)
(* App: diagnostic callbacks (App.tsx 85-92)                               *)
(***************************************************************************)
\* an error callback that opens the console and sets no diagnostic
handleShaderError_Silent(msg) == [errorMsg |-> errorMsg, isConsoleOpen |-> TRUE]

\* an error callback that flips the console on every report
handleShaderError_Flip(msg) == [errorMsg |-> msg, isConsoleOpen |-> ~isConsoleOpen]

handleShaderError(msg) == [errorMsg |-> msg, isConsoleOpen |-> TRUE]

\* a success callback that leaves the diagnostic in place
handleShaderSuccess_Keep == [errorMsg |-> errorMsg, isConsoleOpen |-> isConsoleOpen]

handleShaderSuccess == [errorMsg |-> NoError, isConsoleOpen |-> isConsoleOpen]

\* a promotion that takes the vertex stage when only the fragment failed
Promote_Partial(outcome, vertexShader, fragmentShader) ==
  IF outcome = "success"
  THEN [vertex |-> vertexShader, fragment |-> fragmentShader]
  ELSE IF outcome = "fragment"
  THEN [vertex |-> vertexShader, fragment |-> safeFragment]
  ELSE [vertex |-> safeVertex, fragment |-> safeFragment]

\* a promotion that does not wait for the link status
Promote_Unlinked(outcome, vertexShader, fragmentShader) ==
  IF outcome \in {"success", "link"}
  THEN [vertex |-> vertexShader, fragment |-> fragmentShader]
  ELSE [vertex |-> safeVertex, fragment |-> safeFragment]

\* 5. Success: Update the Rendered Shader (setSafeVertex / setSafeFragment)
Promote(outcome, vertexShader, fragmentShader) ==
  IF outcome = "success"
  THEN [vertex |-> vertexShader, fragment |-> fragmentShader]
  ELSE [vertex |-> safeVertex, fragment |-> safeFragment]

\* The validation effect runs with the props of the last render.
ValidationEffect ==
  /\ effectPending
  /\ ~crashed
  /\ LET r == Validation(activeVertex, activeFragment)
         app == IF r.outcome = "success" THEN handleShaderSuccess
                ELSE handleShaderError(r.msg)
         safe == Promote(r.outcome, activeVertex, activeFragment)
     IN  /\ gl' = [vertexShader |-> activeVertex,
                   fragmentShader |-> activeFragment,
                   vsSource |-> r.vsSource, fsSource |-> r.fsSource,
                   outcome |-> r.outcome, calls |-> r.calls]
         /\ errorMsg' = app.errorMsg
         /\ isConsoleOpen' = app.isConsoleOpen
         /\ safeVertex' = safe.vertex
         /\ safeFragment' = safe.fragment
         /\ uniforms' = shaderMaterial(uniforms,
                                       materialKey(safeVertex, safeFragment),
                                       materialKey(safe.vertex, safe.fragment))
         \* App renders again when its state changed: new onError/onSuccess
         /\ effectPending' = (app.errorMsg # errorMsg
                                \/ app.isConsoleOpen # isConsoleOpen)
  /\ UNCHANGED <<activePresetIndex, editorVertex, editorFragment,
                 activeVertex, activeFragment, timers, customUniforms,
                 lights, nextId, syncPending, crashed, elapsedTime,
                 frameThrew, normalizer, released,
                 reads>>

\* The uniform/light sync effect runs with the props of the last render,
\* after the validation effect, which the component declares first.
SyncEffect ==
  /\ syncPending
  /\ ~effectPending
  /\ ~crashed
  /\ LET r == SyncLights(SyncCustomUniforms(uniforms, customUniforms), lights)
     IN  /\ uniforms' = r.table
         /\ crashed' = r.threw
  /\ syncPending' = FALSE
  /\ released' = [released EXCEPT !.reconciled = (released.id # "")]
  /\ UNCHANGED <<activePresetIndex, editorVertex, editorFragment,
                 activeVertex, activeFragment, errorMsg, isConsoleOpen,
                 timers, safeVertex, safeFragment, effectPending, gl,
                 customUniforms, lights, nextId, elapsedTime, frameThrew,
                 normalizer,
                 reads>>

\* One tick of the render loop; pointer is state.pointer in tenths.
Frame(pointer) ==
  /\ ~crashed
  /\ elapsedTime < MaxClock
  /\ elapsedTime' = elapsedTime + 1
  /\ LET r == useFrame(uniforms, elapsedTime + 1, pointer, customUniforms)
     IN  /\ uniforms' = r.table
         /\ frameThrew' = r.threw
  /\ UNCHANGED <<activePresetIndex, editorVertex, editorFragment,
                 activeVertex, activeFragment, errorMsg, isConsoleOpen,
                 timers, safeVertex, safeFragment, effectPending, gl,
                 customUniforms, lights, nextId, syncPending, crashed,
                 normalizer, released,
                 reads>>

(***************************************************************************)
(* App: editor and commit (App.tsx 48-83, 232-254, 269-275)                *)
(***************************************************************************)
Idle == ~effectPending /\ ~syncPending /\ ~crashed

\* setEditorVertex on a keystroke in the vertex tab
EditVertex(s) ==
  /\ Idle
  /\ s # editorVertex
  /\ editorVertex' = s
  /\ effectPending' = TRUE
  /\ UNCHANGED <<activePresetIndex, editorFragment, activeVertex,
                 activeFragment, errorMsg, isConsoleOpen, timers,
                 safeVertex, safeFragment, gl, sceneVars>>

\* setEditorFragment on a keystroke in the fragment tab
EditFragment(s) ==
  /\ Idle
  /\ s # editorFragment
  /\ editorFragment' = s
  /\ effectPending' = TRUE
  /\ UNCHANGED <<activePresetIndex, editorVertex, activeVertex,
                 activeFragment, errorMsg, isConsoleOpen, timers,
                 safeVertex, safeFragment, gl, sceneVars>>

\* handleRun: Run button or Ctrl/Cmd+Enter
handleRun ==
  /\ Idle
  /\ Len(timers) < MaxTimers
  /\ errorMsg' = NoError
  /\ timers' = Append(timers, [vertex |-> editorVertex,
                               fragment |-> editorFragment])
  /\ effectPending' = (errorMsg # NoError)
  /\ UNCHANGED <<activePresetIndex, editorVertex, editorFragment,
                 activeVertex, activeFragment, isConsoleOpen,
                 safeVertex, safeFragment, gl, sceneVars>>

\* a callback that sets the vertex stage only
SetActive_Split(timer) == [vertex |-> timer.vertex, fragment |-> activeFragment]

\* a callback that reads the drafts when it runs
SetActive_Drafts(timer) == [vertex |-> editorVertex, fragment |-> editorFragment]

\* the setTimeout callback of handleRun; both updates are one render
SetActive(timer) == [vertex |-> timer.vertex, fragment |-> timer.fragment]

TimerFire ==
  /\ Idle
  /\ timers # <<>>
  /\ LET next == SetActive(Head(timers))
     IN  /\ activeVertex' = next.vertex
         /\ activeFragment' = next.fragment
         /\ effectPending' = (next.vertex # activeVertex
                                \/ next.fragment # activeFragment)
  /\ timers' = Tail(timers)
  /\ UNCHANGED <<activePresetIndex, editorVertex, editorFragment, errorMsg,
                 isConsoleOpen, safeVertex, safeFragment, gl, sceneVars>>

\* click on the header of the error console
ToggleConsole ==
  /\ Idle
  /\ errorMsg # NoError
  /\ isConsoleOpen' = ~isConsoleOpen
  /\ effectPending' = TRUE
  /\ UNCHANGED <<activePresetIndex, editorVertex, editorFragment,
                 activeVertex, activeFragment, errorMsg, timers,
                 safeVertex, safeFragment, gl, sceneVars>>

\* createNoiseTextureURI(): a data URI of generated noise
createNoiseTextureURI == String("data:image/png;noise")

NoBinding == ""
NoWrap == ""

CustomUniform(id, name, type, value, binding, wrap) ==
  [id |-> id, name |-> name, type |-> type, value |-> value,
   binding |-> binding, wrap |-> wrap]

\* loadPreset(index); setCustomUniforms installs a new array: App renders
loadPreset(index) ==
  /\ Idle
  /\ LET preset == SHADER_PRESETS[index]
     IN  /\ activePresetIndex' = index
         /\ editorVertex' = preset.vertex
         /\ editorFragment' = preset.fragment
         /\ activeVertex' = preset.vertex
         /\ activeFragment' = preset.fragment
         /\ errorMsg' = NoError
         /\ customUniforms' =
              IF includes(preset.name, "Textura")
              THEN << CustomUniform("auto-texture", "u_texture", SAMPLER_2D,
                                    createNoiseTextureURI, NoBinding, NoWrap) >>
              ELSE <<>>
  /\ effectPending' = TRUE
  /\ syncPending' = TRUE
  /\ UNCHANGED <<isConsoleOpen, timers, safeVertex, safeFragment, gl,
                 lights, nextId, uniforms, crashed, elapsedTime, frameThrew,
                 normalizer, released,
                 reads>>

(***************************************************************************)
(* Controls: uniform logic (types.ts 583-661).  Every handler installs a   *)
(* new array with setCustomUniforms: App renders, both effects are due.    *)
(***************************************************************************)
pipelineVars == <<normalizer, released, reads, activePresetIndex, editorVertex, editorFragment,
                  activeVertex, activeFragment, errorMsg, isConsoleOpen,
                  timers, safeVertex, safeFragment, gl>>

\* Math.random().toString(36).substr(2, 9): the n-th id drawn
RandomId(n) == "id" \o ToString(n)

defaultValue(type) ==
  CASE type = VEC2 -> Array(<<5, 5>>)
    [] type = VEC3 -> Array(<<10, 10, 10>>)
    [] type = VEC4 -> Array(<<10, 5, 0, 10>>)
    [] type = MAT3 -> Array(<<10, 0, 0, 0, 10, 0, 0, 0, 10>>)
    [] type = MAT4 -> Array(<<10, 0, 0, 0, 0, 10, 0, 0, 0, 0, 10, 0, 0, 0, 0, 10>>)
    [] type = SAMPLER_2D -> createNoiseTextureURI
    [] OTHER -> Number(5)

some(decls, name) == \E i \in 1..Len(decls) : decls[i].name = name

addUniformName(decls, type, binding) ==
  LET boundPrefix == CASE binding = "TIME" -> "u_timer"
                       [] binding = "MOUSE" -> "u_mouse_pos"
                       [] OTHER -> "u_custom"
      namePrefix == IF type = SAMPLER_2D THEN "u_texture" ELSE boundPrefix
  IN  IF type = SAMPLER_2D /\ ~some(decls, "u_texture")
      THEN "u_texture"
      ELSE namePrefix \o "_" \o ToString(Len(decls) + 1)

addUniform(type, binding) ==
  /\ Idle
  /\ nextId < MaxIds
  /\ customUniforms' =
       Append(customUniforms,
              CustomUniform(RandomId(nextId + 1),
                            addUniformName(customUniforms, type, binding),
                            type, defaultValue(type), binding,
                            IF type = SAMPLER_2D THEN "REPEAT" ELSE NoWrap))
  /\ nextId' = nextId + 1
  /\ effectPending' = TRUE
  /\ syncPending' = TRUE
  /\ UNCHANGED <<pipelineVars, lights, uniforms, crashed, elapsedTime,
                 frameThrew>>

removeUniform(id) ==
  /\ Idle
  /\ \E i \in 1..Len(customUniforms) : customUniforms[i].id = id
  /\ customUniforms' = SelectSeq(customUniforms, LAMBDA u : u.id # id)
  /\ effectPending' = TRUE
  /\ syncPending' = TRUE
  /\ UNCHANGED <<pipelineVars, lights, nextId, uniforms, crashed,
                 elapsedTime, frameThrew>>

\* the value controls are rendered for declarations without a binding
updateUniformValue(id, newValue) ==
  /\ Idle
  /\ \E i \in 1..Len(customUniforms) :
        customUniforms[i].id = id /\ customUniforms[i].binding = NoBinding
  /\ customUniforms' = [i \in 1..Len(customUniforms) |->
                          IF customUniforms[i].id = id
                          THEN [customUniforms[i] EXCEPT !.value = newValue]
                          ELSE customUniforms[i]]
  /\ effectPending' = TRUE
  /\ syncPending' = TRUE
  /\ UNCHANGED <<pipelineVars, lights, nextId, uniforms, crashed,
                 elapsedTime, frameThrew>>

updateUniformName(id, name) ==
  /\ Idle
  /\ \E i \in 1..Len(customUniforms) : customUniforms[i].id = id
  /\ customUniforms' = [i \in 1..Len(customUniforms) |->
                          IF customUniforms[i].id = id
                          THEN [customUniforms[i] EXCEPT !.name = name]
                          ELSE customUniforms[i]]
  /\ effectPending' = TRUE
  /\ syncPending' = TRUE
  /\ UNCHANGED <<pipelineVars, lights, nextId, uniforms, crashed,
                 elapsedTime, frameThrew>>

\* handleFileUpload(e, uniformId) on the file input of a Sampler2D
\* declaration: reader.readAsDataURL(file) starts; the onload callback
\* holds the updateUniformValue of this render, and with it this render's
\* customUniforms.  No state is set.
handleFileUpload(uniformId, result) ==
  /\ Idle
  /\ Len(reads) < MaxReads
  /\ \E i \in 1..Len(customUniforms) :
        /\ customUniforms[i].id = uniformId
        /\ customUniforms[i].type = SAMPLER_2D
        /\ customUniforms[i].binding = NoBinding
  /\ reads' = Append(reads, [uniformId |-> uniformId, result |-> result,
                             customUniforms |-> customUniforms])
  /\ UNCHANGED <<activePresetIndex, editorVertex, editorFragment,
                 activeVertex, activeFragment, errorMsg, isConsoleOpen,
                 timers, safeVertex, safeFragment, effectPending, gl,
                 customUniforms, lights, nextId, uniforms, syncPending,
                 crashed, elapsedTime, frameThrew, normalizer, released>>

\* reader.onload of the read k: updateUniformValue(uniformId, result) as
\* the render that started the read defined it
ReadComplete(k) ==
  /\ Idle
  /\ k \in 1..Len(reads)
  /\ LET read == reads[k]
         list == read.customUniforms
     IN  customUniforms' = [i \in 1..Len(list) |->
                              IF list[i].id = read.uniformId
                              THEN [list[i] EXCEPT !.value = read.result]
                              ELSE list[i]]
  /\ reads' = [i \in 1..(Len(reads) - 1) |->
                 IF i < k THEN reads[i] ELSE reads[i + 1]]
  /\ effectPending' = TRUE
  /\ syncPending' = TRUE
  /\ UNCHANGED <<activePresetIndex, editorVertex, editorFragment,
                 activeVertex, activeFragment, errorMsg, isConsoleOpen,
                 timers, safeVertex, safeFragment, gl, lights, nextId,
                 uniforms, crashed, elapsedTime, frameThrew, normalizer,
                 released>>

updateUniformWrap(id, wrap) ==
  /\ Idle
  /\ \E i \in 1..Len(customUniforms) : customUniforms[i].id = id
  /\ customUniforms' = [i \in 1..Len(customUniforms) |->
                          IF customUniforms[i].id = id
                          THEN [customUniforms[i] EXCEPT !.wrap = wrap]
                          ELSE customUniforms[i]]
  /\ effectPending' = TRUE
  /\ syncPending' = TRUE
  /\ UNCHANGED <<pipelineVars, lights, nextId, uniforms, crashed,
                 elapsedTime, frameThrew>>

\* The onLoad callback of the load that made the texture held by the entry
\* name: the image arrives in the texture object.  No React state changes.
DecodeComplete(name) ==
  /\ Idle
  /\ name \in DOMAIN uniforms
  /\ uniforms[name].kind = "Texture"
  /\ uniforms[name] # Decoded(uniforms[name])
  /\ uniforms' = SetEntry(uniforms, name, Decoded(uniforms[name]))
  /\ UNCHANGED <<activePresetIndex, editorVertex, editorFragment,
                 activeVertex, activeFragment, errorMsg, isConsoleOpen,
                 timers, safeVertex, safeFragment, effectPending, gl,
                 customUniforms, lights, nextId, syncPending, crashed,
                 elapsedTime, frameThrew, normalizer, released,
                 reads>>

\* The configuration surface hands the mesh a list in which the declaration
\* id no longer has a binding (spec.md 8, Binding override); Controls has no
\* control that does it.
ClearBinding(id) ==
  /\ Idle
  /\ \E i \in 1..Len(customUniforms) :
        customUniforms[i].id = id /\ customUniforms[i].binding # NoBinding
  /\ customUniforms' = [i \in 1..Len(customUniforms) |->
                          IF customUniforms[i].id = id
                          THEN [customUniforms[i] EXCEPT !.binding = NoBinding]
                          ELSE customUniforms[i]]
  /\ released' = [id |-> id, reconciled |-> FALSE]
  /\ effectPending' = TRUE
  /\ syncPending' = TRUE
  /\ UNCHANGED <<activePresetIndex, editorVertex, editorFragment,
                 activeVertex, activeFragment, errorMsg, isConsoleOpen,
                 timers, safeVertex, safeFragment, gl, normalizer, lights,
                 nextId, uniforms, crashed, elapsedTime, frameThrew,
                 reads>>

(***************************************************************************)
(* Controls: light logic (types.ts 670-697).  setLights installs a new     *)
(* array: App renders, both effects are due.                               *)
(***************************************************************************)
Light(id, position, color, intensity) ==
  [id |-> id, position |-> position, color |-> color, intensity |-> intensity]

\* addLight without its early return
addLight_Unguarded ==
  /\ ~effectPending /\ ~syncPending /\ ~crashed
  /\ nextId < MaxAdds
  /\ lights' = Append(lights, Light(RandomId(nextId + 1), <<20, 20, 20>>,
                                    "#ffffff", 10))
  /\ nextId' = nextId + 1
  /\ effectPending' = TRUE
  /\ syncPending' = TRUE
  /\ UNCHANGED <<pipelineVars, customUniforms, uniforms, crashed,
                 elapsedTime, frameThrew>>

addLight ==
  /\ Idle
  /\ nextId < MaxAdds
  /\ ~(Len(lights) >= 4)
  /\ lights' = Append(lights, Light(RandomId(nextId + 1), <<20, 20, 20>>,
                                    "#ffffff", 10))
  /\ nextId' = nextId + 1
  /\ effectPending' = TRUE
  /\ syncPending' = TRUE
  /\ UNCHANGED <<pipelineVars, customUniforms, uniforms, crashed,
                 elapsedTime, frameThrew>>

removeLight(id) ==
  /\ Idle
  /\ \E i \in 1..Len(lights) : lights[i].id = id
  /\ lights' = SelectSeq(lights, LAMBDA l : l.id # id)
  /\ effectPending' = TRUE
  /\ syncPending' = TRUE
  /\ UNCHANGED <<pipelineVars, customUniforms, nextId, uniforms, crashed,
                 elapsedTime, frameThrew>>

updateLight(id, field, value) ==
  /\ Idle
  /\ \E i \in 1..Len(lights) : lights[i].id = id
  /\ lights' = [i \in 1..Len(lights) |->
                  IF lights[i].id = id
                  THEN [lights[i] EXCEPT ![field] = value]
                  ELSE lights[i]]
  /\ effectPending' = TRUE
  /\ syncPending' = TRUE
  /\ UNCHANGED <<pipelineVars, customUniforms, nextId, uniforms, crashed,
                 elapsedTime, frameThrew>>

(***************************************************************************)
(* Specifications                                                          *)
(***************************************************************************)
NoCall == [log |-> <<>>, offset |-> 0, result |-> <<>>, done |-> FALSE]

NoContext == [vertexShader |-> "", fragmentShader |-> "", outcome |-> "",
              vsSource |-> <<>>, fsSource |-> <<>>, calls |-> <<>>]

NoRelease == [id |-> "", reconciled |-> FALSE]

InitApp ==
  /\ activePresetIndex = 1
  /\ editorVertex = SHADER_PRESETS[1].vertex
  /\ editorFragment = SHADER_PRESETS[1].fragment
  /\ activeVertex = SHADER_PRESETS[1].vertex
  /\ activeFragment = SHADER_PRESETS[1].fragment
  /\ errorMsg = NoError
  /\ isConsoleOpen = TRUE
  /\ timers = <<>>
  /\ safeVertex = SHADER_PRESETS[1].vertex
  /\ safeFragment = SHADER_PRESETS[1].fragment
  /\ effectPending = TRUE
  /\ gl = NoContext
  /\ customUniforms = <<>>
  /\ lights = << [id |-> "l1", position |-> <<20, 20, 20>>,
                  color |-> "#ffffff", intensity |-> 10] >>
  /\ nextId = 0
  /\ uniforms = BuiltinUniforms
  /\ syncPending = TRUE
  /\ crashed = FALSE
  /\ elapsedTime = 0
  /\ frameThrew = FALSE
  /\ released = NoRelease
  /\ reads = <<>>

Init ==
  /\ InitApp
  /\ normalizer = NoCall

\* The shader pipeline: editor, commits, presets, validation.
Next ==
  \/ ValidationEffect
  \/ SyncEffect
  \/ \E s \in VertexDrafts : EditVertex(s)
  \/ \E s \in FragmentDrafts : EditFragment(s)
  \/ handleRun
  \/ TimerFire
  \/ ToggleConsole
  \/ \E index \in PresetIndices : loadPreset(index)

Spec == Init /\ [][Next]_vars

\* Commits of failing and of valid pairs, preset loads and console
\* toggles.  React runs a scheduled passive effect: the validation effect
\* that is due is eventually run.
SettleVertexDrafts == {"broken.vert"}
SettleFragmentDrafts == {"mismatch.frag"}

NextSettle ==
  \/ ValidationEffect
  \/ SyncEffect
  \/ \E s \in SettleVertexDrafts : EditVertex(s)
  \/ \E s \in SettleFragmentDrafts : EditFragment(s)
  \/ handleRun
  \/ TimerFire
  \/ ToggleConsole
  \/ \E index \in PresetIndices : loadPreset(index)

SpecSettle == Init /\ [][NextSettle]_vars /\ WF_vars(ValidationEffect)

\* The scene: declarations are added, edited, renamed and unbound, and are
\* reconciled and animated by frames, with the submitted pair left alone.
\* The handlers are discrete events, whose render and effects React
\* flushes before the next frame.
Ids == {RandomId(n) : n \in 1..MaxIds}
Pointers == {<<0, 10>>}
RenameTargets == {"u_timer_1"}
ValueInputs == {Number(15)}

NextScene ==
  \/ ValidationEffect
  \/ SyncEffect
  \/ \E pointer \in Pointers : Idle /\ Frame(pointer)
  \/ addUniform(FLOAT, NoBinding)
  \/ addUniform(FLOAT, "TIME")
  \/ addUniform(VEC2, "MOUSE")
  \/ \E id \in Ids, v \in ValueInputs : updateUniformValue(id, v)
  \/ \E id \in Ids, name \in RenameTargets : updateUniformName(id, name)
  \/ \E id \in Ids : ClearBinding(id)

SpecScene == Init /\ [][NextScene]_vars

(***************************************************************************)
(* The diagnostic normalizer on its own: one call of parseErrorLog on a    *)
(* raw log made of up to MaxLogParts pieces.                               *)
(***************************************************************************)
ErrorAt(line) == <<Txt("ERROR: "), Num(0), Txt(":"), Num(line), Txt(":")>>

LogParts ==
  { ErrorAt(line) : line \in {0, 1, FRAGMENT_OFFSET, FRAGMENT_OFFSET + 1,
                              VERTEX_OFFSET, VERTEX_OFFSET + 1,
                              VERTEX_OFFSET + 7} }
  \cup { <<Txt(" 'foo' : undeclared identifier"), NL>>,
         <<Txt("ERROR: "), Num(0), Txt(":"), Num(20)>>,
         <<Txt("WARNING: "), Num(0), Txt(":"), Num(20), Txt(":")>>,
         <<Txt("ERROR: "), Txt(":"), Num(20), Txt(":")>>,
         <<Num(3), Txt(":")>> }

RECURSIVE RawLogs(_)
RawLogs(n) ==
  IF n = 0 THEN {<<>>}
  ELSE RawLogs(n - 1) \cup {l \o part : l \in RawLogs(n - 1), part \in LogParts}

InitLog ==
  /\ InitApp
  /\ normalizer \in { [log |-> l, offset |-> o, result |-> <<>>, done |-> FALSE] :
                        l \in RawLogs(MaxLogParts),
                        o \in {VERTEX_OFFSET, FRAGMENT_OFFSET} }

Normalize ==
  /\ ~normalizer.done
  /\ normalizer' = [normalizer EXCEPT
                      !.result = parseErrorLog(normalizer.log, normalizer.offset),
                      !.done = TRUE]
  /\ UNCHANGED <<activePresetIndex, editorVertex, editorFragment,
                 activeVertex, activeFragment, errorMsg, isConsoleOpen,
                 timers, safeVertex, safeFragment, effectPending, gl,
                 customUniforms, lights, nextId, uniforms, syncPending,
                 crashed, elapsedTime, frameThrew, released,
                 reads>>

NextLog == Normalize

SpecLog == InitLog /\ [][NextLog]_vars

(***************************************************************************)
(* The light sync on its own: ShaderMesh is given a list of up to          *)
(* MaxLights lights, which the light controls then edit.                   *)
(***************************************************************************)
\* the i-th light of a list: white lights and red lights in turn, each
\* at its own height
LightAt(i) ==
  Light("l" \o ToString(i), <<20, 10 * i, 20>>,
        IF i % 2 = 1 THEN "#ffffff" ELSE "#ff0000", 10 + i)

LightLists(n) == { [i \in 1..k |-> LightAt(i)] : k \in 0..n }

LightIds ==
  {"l" \o ToString(n) : n \in 1..MaxLights}
    \cup {RandomId(n) : n \in 1..MaxAdds}

LightEdits == { <<"intensity", 5>> }

InitLights ==
  /\ activePresetIndex = 1
  /\ editorVertex = SHADER_PRESETS[1].vertex
  /\ editorFragment = SHADER_PRESETS[1].fragment
  /\ activeVertex = SHADER_PRESETS[1].vertex
  /\ activeFragment = SHADER_PRESETS[1].fragment
  /\ errorMsg = NoError
  /\ isConsoleOpen = TRUE
  /\ timers = <<>>
  /\ safeVertex = SHADER_PRESETS[1].vertex
  /\ safeFragment = SHADER_PRESETS[1].fragment
  /\ effectPending = TRUE
  /\ gl = NoContext
  /\ customUniforms = <<>>
  /\ lights \in LightLists(MaxLights)
  /\ nextId = 0
  /\ uniforms = BuiltinUniforms
  /\ syncPending = TRUE
  /\ crashed = FALSE
  /\ elapsedTime = 0
  /\ frameThrew = FALSE
  /\ released = NoRelease
  /\ reads = <<>>
  /\ normalizer = NoCall

NextLights ==
  \/ ValidationEffect
  \/ SyncEffect
  \/ addLight
  \/ \E id \in LightIds : removeLight(id)
  \/ \E id \in LightIds, e \in LightEdits : updateLight(id, e[1], e[2])

SpecLights == InitLights /\ [][NextLights]_vars

\* The light controls of the panel, from the list App starts with.
SpecLightControls == Init /\ [][NextLights]_vars

(***************************************************************************)
(* The pipeline with drafts that have a "-" next to the joint of the key.  *)
(***************************************************************************)
NextKey ==
  \/ ValidationEffect
  \/ SyncEffect
  \/ \E s \in KeyVertexDrafts : EditVertex(s)
  \/ \E s \in KeyFragmentDrafts : EditFragment(s)
  \/ handleRun
  \/ TimerFire

SpecKey == Init /\ [][NextKey]_vars

(***************************************************************************)
(* Rebuilds with declarations: presets, commits of valid pairs, added      *)
(* declarations and frames.                                                *)
(***************************************************************************)
RebuildDrafts == {"normals.frag", "texture.frag"}

NextRebuild ==
  \/ ValidationEffect
  \/ SyncEffect
  \/ \E pointer \in Pointers : Idle /\ Frame(pointer)
  \/ \E s \in RebuildDrafts : EditFragment(s)
  \/ handleRun
  \/ TimerFire
  \/ \E index \in PresetIndices : loadPreset(index)
  \/ addUniform(FLOAT, NoBinding)

SpecRebuild == Init /\ [][NextRebuild]_vars

(***************************************************************************)
(* Textures: sampler declarations are added, removed and given a wrap      *)
(* mode while their images are decoded.                                    *)
(***************************************************************************)
WrapModes == {"CLAMP", "MIRROR"}

NextTextures ==
  \/ ValidationEffect
  \/ SyncEffect
  \/ addUniform(SAMPLER_2D, NoBinding)
  \/ \E id \in Ids : removeUniform(id)
  \/ \E id \in Ids, wrap \in WrapModes : updateUniformWrap(id, wrap)
  \/ \E name \in DOMAIN uniforms : DecodeComplete(name)

SpecTextures == Init /\ [][NextTextures]_vars

(***************************************************************************)
(* ShaderMesh given declarations whose value does not have the shape of    *)
(* the declared type: CustomUniform.value is number | number[] | string    *)
(* for every type (types.ts 13-22).                                        *)
(***************************************************************************)
\* the shape the declared type asks of a value
Arity(type) ==
  CASE type = VEC2 -> 2 [] type = VEC3 -> 3 [] type = VEC4 -> 4
    [] type = MAT3 -> 9 [] type = MAT4 -> 16 [] OTHER -> 1

WellShaped(cu) ==
  CASE cu.type = FLOAT -> cu.value.kind = "number"
    [] cu.type = SAMPLER_2D -> cu.value.kind = "string"
    [] OTHER -> IsArray(cu.value) /\ Len(cu.value.c) = Arity(cu.type)

ShapeBindings == {NoBinding, "TIME", "MOUSE"}

MisshapenValues ==
  { <<FLOAT, Array(<<10, 20>>)>>,
    <<VEC2, Number(5)>>,
    <<VEC3, Array(<<10>>)>>,
    <<SAMPLER_2D, Number(5)>> }

Misshapen(id, name) ==
  { CustomUniform(id, name, tv[1], tv[2], binding,
                  IF tv[1] = SAMPLER_2D THEN "REPEAT" ELSE NoWrap) :
      tv \in MisshapenValues, binding \in ShapeBindings }

ShapeLists ==
  { <<a>> : a \in Misshapen("a", "u_custom_1") }
  \cup { <<a, b>> : a \in Misshapen("a", "u_custom_1"),
                    b \in Misshapen("b", "u_custom_2") }

InitShapes ==
  /\ activePresetIndex = 1
  /\ editorVertex = SHADER_PRESETS[1].vertex
  /\ editorFragment = SHADER_PRESETS[1].fragment
  /\ activeVertex = SHADER_PRESETS[1].vertex
  /\ activeFragment = SHADER_PRESETS[1].fragment
  /\ errorMsg = NoError
  /\ isConsoleOpen = TRUE
  /\ timers = <<>>
  /\ safeVertex = SHADER_PRESETS[1].vertex
  /\ safeFragment = SHADER_PRESETS[1].fragment
  /\ effectPending = TRUE
  /\ gl = NoContext
  /\ customUniforms \in ShapeLists
  /\ lights = << [id |-> "l1", position |-> <<20, 20, 20>>,
                  color |-> "#ffffff", intensity |-> 10] >>
  /\ nextId = 0
  /\ uniforms = BuiltinUniforms
  /\ syncPending = TRUE
  /\ crashed = FALSE
  /\ elapsedTime = 0
  /\ frameThrew = FALSE
  /\ released = NoRelease
  /\ reads = <<>>
  /\ normalizer = NoCall

NextShapes ==
  \/ ValidationEffect
  \/ SyncEffect
  \/ \E pointer \in Pointers : Idle /\ Frame(pointer)

SpecShapes == InitShapes /\ [][NextShapes]_vars

(***************************************************************************)
(* Declarations given the name of a built-in uniform in the name field.    *)
(***************************************************************************)
BuiltinTargets == {"u_mouse", "u_lightIntensity"}

NextBuiltins ==
  \/ ValidationEffect
  \/ SyncEffect
  \/ \E pointer \in Pointers : Idle /\ Frame(pointer)
  \/ addUniform(FLOAT, NoBinding)
  \/ addUniform(VEC3, NoBinding)
  \/ \E id \in Ids, v \in ValueInputs : updateUniformValue(id, v)
  \/ \E id \in Ids, name \in BuiltinTargets : updateUniformName(id, name)

SpecBuiltins == Init /\ [][NextBuiltins]_vars

(***************************************************************************)
(* Presets loaded around commits.  The only draft typed is one that is no  *)
(* preset's text, so the drafts equal a preset's pair only at the start    *)
(* and after loadPreset.                                                   *)
(***************************************************************************)
TypedDrafts == {"broken.frag"}

NextPreset ==
  \/ ValidationEffect
  \/ SyncEffect
  \/ \E s \in TypedDrafts : EditFragment(s)
  \/ handleRun
  \/ TimerFire
  \/ \E index \in PresetIndices : loadPreset(index)

SpecPreset == Init /\ [][NextPreset]_vars

(***************************************************************************)
(* Texture files read while the declaration list is edited.                *)
(***************************************************************************)
FileResults == {String("data:image/png;base64,upload")}

NextUpload ==
  \/ ValidationEffect
  \/ SyncEffect
  \/ addUniform(SAMPLER_2D, NoBinding)
  \/ addUniform(FLOAT, NoBinding)
  \/ \E id \in Ids : removeUniform(id)
  \/ \E id \in Ids, name \in RenameTargets : updateUniformName(id, name)
  \/ \E id \in Ids, v \in ValueInputs : updateUniformValue(id, v)
  \/ \E id \in Ids, result \in FileResults : handleFileUpload(id, result)
  \/ \E k \in 1..MaxReads : ReadComplete(k)

SpecUpload == Init /\ [][NextUpload]_vars

(***************************************************************************)
(* Declarations added and removed, never renamed, from the list App has    *)
(* after a first click on the Float button.                                *)
(***************************************************************************)
FirstId == "id0"

InitNames ==
  /\ activePresetIndex = 1
  /\ editorVertex = SHADER_PRESETS[1].vertex
  /\ editorFragment = SHADER_PRESETS[1].fragment
  /\ activeVertex = SHADER_PRESETS[1].vertex
  /\ activeFragment = SHADER_PRESETS[1].fragment
  /\ errorMsg = NoError
  /\ isConsoleOpen = TRUE
  /\ timers = <<>>
  /\ safeVertex = SHADER_PRESETS[1].vertex
  /\ safeFragment = SHADER_PRESETS[1].fragment
  /\ effectPending = TRUE
  /\ gl = NoContext
  /\ customUniforms =
       << CustomUniform(FirstId, addUniformName(<<>>, FLOAT, NoBinding),
                        FLOAT, defaultValue(FLOAT), NoBinding, NoWrap) >>
  /\ lights = << [id |-> "l1", position |-> <<20, 20, 20>>,
                  color |-> "#ffffff", intensity |-> 10] >>
  /\ nextId = 0
  /\ uniforms = BuiltinUniforms
  /\ syncPending = TRUE
  /\ crashed = FALSE
  /\ elapsedTime = 0
  /\ frameThrew = FALSE
  /\ released = NoRelease
  /\ reads = <<>>
  /\ normalizer = NoCall

NextNames ==
  \/ ValidationEffect
  \/ SyncEffect
  \/ addUniform(FLOAT, NoBinding)
  \/ addUniform(FLOAT, "TIME")
  \/ addUniform(VEC2, "MOUSE")
  \/ addUniform(SAMPLER_2D, NoBinding)
  \/ \E id \in Ids \cup {FirstId} : removeUniform(id)

SpecNames == InitNames /\ [][NextNames]_vars

(***************************************************************************)
(* Properties                                                              *)
(***************************************************************************)
ActivePair == <<activeVertex, activeFragment>>
SafePair == <<safeVertex, safeFragment>>
PresetPair(i) == <<SHADER_PRESETS[i].vertex, SHADER_PRESETS[i].fragment>>

\* the oracle compiles both stages behind their preambles and links them
PairValid(pair) ==
  LET vs == THREE_VERTEX_PREFIX \o <<Txt(pair[1])>>
      fs == THREE_FRAGMENT_PREFIX \o <<Txt(pair[2])>>
  IN  /\ COMPILE_STATUS(VERTEX_SHADER, vs)
      /\ COMPILE_STATUS(FRAGMENT_SHADER, fs)
      /\ LINK_STATUS(vs, fs)

\* C1: a validation attempt on a pair that fails at any stage leaves the
\* safe pair as it was, and an attempt on a pair that passes makes the safe
\* pair exactly the submitted pair: after a failing commit N the safe pair
\* is the one before N, after a passing commit N+1 it is the pair of N+1.
C1_AtomicPromotion ==
  [][ValidationEffect =>
       IF PairValid(ActivePair) THEN SafePair' = ActivePair
       ELSE SafePair' = SafePair]_vars

\* a failed attempt on a submitted pair, while the safe pair is one that an
\* earlier commit promoted (it is neither the initial pair nor the failing one)
C1_Witness ==
  /\ gl.outcome \in {"vertex", "fragment", "link"}
  /\ <<gl.vertexShader, gl.fragmentShader>> = ActivePair
  /\ SafePair # ActivePair
  /\ SafePair # PresetPair(1)

\* C2: in every reachable state the safe pair, the initial one included,
\* is a pair the oracle compiles and links behind the preambles.
C2_SafePairValid == PairValid(SafePair)

\* a pair composed by the user (texture preset vertex, first preset
\* fragment) has been promoted
C2_Witness ==
  /\ SafePair = <<TEXTURE_VERTEX_SHADER, "normals.frag">>
  /\ gl.outcome = "success"

\* C3: both stages of the submitted pair change together, to the draft pair
\* captured by one commit or to the pair of one preset; a commit captures
\* the whole draft pair; the pair an attempt validates is the submitted pair
\* and the safe pair changes only to the whole submitted pair.
C3_WholePairs ==
  [][ /\ (ActivePair' # ActivePair =>
            \/ /\ timers # <<>>
               /\ ActivePair' = <<Head(timers).vertex, Head(timers).fragment>>
            \/ \E i \in PresetIndices : ActivePair' = PresetPair(i))
      /\ (Len(timers') > Len(timers) =>
            LET t == timers'[Len(timers')]
            IN  <<t.vertex, t.fragment>> = <<editorVertex, editorFragment>>)
      /\ (ValidationEffect =>
            <<gl'.vertexShader, gl'.fragmentShader>> = ActivePair)
      /\ (SafePair' # SafePair => SafePair' = ActivePair) ]_vars

\* a commit replaced both stages of the submitted pair at once and the
\* pair was promoted
C3_Witness ==
  /\ ActivePair = <<DEFAULT_VERTEX_SHADER, "texture.frag">>
  /\ SafePair = ActivePair
  /\ activePresetIndex = 2

\* C4: when the vertex stage of an attempt failed to compile, the oracle
\* received no compile call for the fragment stage in that attempt.
C4_FailFast ==
  gl.outcome = "vertex" =>
    ~\E i \in 1..Len(gl.calls) :
        gl.calls[i].op = "compileShader" /\ gl.calls[i].type = FRAGMENT_SHADER

\* C5: at the end of an attempt every shader and program handle created
\* during it has been deleted.
C5_NoLeak == LiveHandles(gl.calls) = {}

\* an occurrence 'ERROR: <digits>:<line>:' starts at token i of the log
OccurrenceAt(log, i) ==
  /\ i + 4 <= Len(log)
  /\ log[i].kind = "txt" /\ log[i].s = "ERROR: "
  /\ log[i + 1].kind = "num"
  /\ log[i + 2].kind = "txt" /\ log[i + 2].s = ":"
  /\ log[i + 3].kind = "num"
  /\ log[i + 4].kind = "txt" /\ log[i + 4].s = ":"

Occurrences(log) == {i \in 1..Len(log) : OccurrenceAt(log, i)}

\* where token i of the raw log lands: each occurrence before it is two
\* tokens shorter in the result
Lands(log, i) == i - 2 * Cardinality({m \in Occurrences(log) : m < i})

Clamped(line, L) == IF line > L THEN line - L ELSE 1

\* C6: parseErrorLog rewrites every occurrence 'ERROR: <digits>:<line>:'
\* to 'ERROR: line k:' with k = line - L when line > L and k = 1 otherwise,
\* and leaves every other token where it was, in order.
C6_OffsetCorrectness ==
  normalizer.done =>
    LET log == normalizer.log
        out == normalizer.result
        L == normalizer.offset
        M == Occurrences(log)
        inside == UNION {m..(m + 4) : m \in M}
    IN  /\ Len(out) = Len(log) - 2 * Cardinality(M)
        /\ \A m \in M :
             LET p == Lands(log, m)
             IN  /\ out[p] = Txt("ERROR: line ")
                 /\ out[p + 1] = Num(Clamped(log[m + 3].n, L))
                 /\ out[p + 2] = Txt(":")
        /\ \A i \in (1..Len(log)) \ inside : out[Lands(log, i)] = log[i]

\* a log with an error before the user's first line, an error after it and
\* text in between has been normalized
C6_Witness ==
  /\ normalizer.done
  /\ normalizer.offset = VERTEX_OFFSET
  /\ normalizer.log = ErrorAt(VERTEX_OFFSET)
                        \o <<Txt(" 'foo' : undeclared identifier"), NL>>
                        \o ErrorAt(VERTEX_OFFSET + 7)
  /\ normalizer.result[2] = Num(1)
  /\ normalizer.result[7] = Num(7)

\* the stage at which the oracle rejects a pair that is not valid
FailedStage(pair) ==
  LET vs == THREE_VERTEX_PREFIX \o <<Txt(pair[1])>>
      fs == THREE_FRAGMENT_PREFIX \o <<Txt(pair[2])>>
  IN  IF ~COMPILE_STATUS(VERTEX_SHADER, vs) THEN "vertex"
      ELSE IF ~COMPILE_STATUS(FRAGMENT_SHADER, fs) THEN "fragment"
      ELSE "link"

StageLabel(stage) ==
  CASE stage = "vertex" -> "VERTEX SHADER ERROR:"
    [] stage = "fragment" -> "FRAGMENT SHADER ERROR:"
    [] OTHER -> "LINKER ERROR (Varying Mismatch?):"

\* the log of each failing draft as the user must read it: the vertex
\* draft fails on its line 2, the fragment draft on its line 1
ExpectedLog(stage) ==
  CASE stage = "vertex" ->
         << Txt("ERROR: line "), Num(2), Txt(":"),
            Txt(" 'foo' : undeclared identifier"), NL >>
    [] stage = "fragment" ->
         << Txt("ERROR: line "), Num(1), Txt(":"),
            Txt(" 'gl_FragColor' : syntax error"), NL >>
    [] OTHER ->
         << Txt("FRAGMENT varying vGlow does not match any VERTEX varying"), NL >>

\* C7: after an attempt on a pair that passes the diagnostic is null; after
\* an attempt that fails it is the label of the stage that failed followed
\* by that attempt's log (normalized for a compile failure).
C7_Diagnostic ==
  [][ValidationEffect =>
       IF PairValid(ActivePair) THEN errorMsg' = NoError
       ELSE errorMsg' = <<Txt(StageLabel(FailedStage(ActivePair))), NL>>
                          \o ExpectedLog(FailedStage(ActivePair))]_vars

\* the fragment diagnostic of a failed attempt is displayed
C7_Witness ==
  /\ gl.outcome = "fragment"
  /\ errorMsg # NoError
  /\ errorMsg[1] = Txt("FRAGMENT SHADER ERROR:")
  /\ ~effectPending

\* C8: the validation effect becomes due only by a commit (handleRun and
\* its timer) or a preset load; an edit of the draft does not make it due.
C8_OnlyOnCommit ==
  [][(~effectPending /\ effectPending') =>
       (handleRun \/ TimerFire \/ \E i \in PresetIndices : loadPreset(i))]_vars

TimeBound(decls, table) ==
  {i \in 1..Len(decls) : decls[i].binding = "TIME" /\ decls[i].name \in DOMAIN table}

\* the declarations whose binding was removed since the last sync pass
\* (a declaration that was bound to TIME is a FLOAT)
Released(decls) ==
  {i \in 1..Len(decls) : /\ decls[i].id = released.id
                         /\ ~released.reconciled
                         /\ decls[i].type = FLOAT}

\* a frame is rendered when its callback ran to its end
Rendered == (\E pointer \in Pointers : Frame(pointer)) /\ ~frameThrew'

\* the last declaration of the list with that name and no binding
LastUnbound(decls, name) ==
  LET I == {i \in 1..Len(decls) : decls[i].name = name /\ decls[i].binding = NoBinding}
  IN  decls[CHOOSE i \in I : \A j \in I : j <= i]

\* C10 (as stated): after every rendered frame the entry of a declaration
\* bound to TIME holds the elapsed time of that frame, and the first sync
\* pass after the binding was removed sets the entry to the declaration's
\* manual value.
C10_ManualRestored ==
  [][ /\ (Rendered =>
            \A i \in TimeBound(customUniforms, uniforms) :
               uniforms'[customUniforms[i].name] = Number(elapsedTime'))
      /\ (SyncEffect =>
            \A i \in Released(customUniforms) :
               uniforms'[customUniforms[i].name] = customUniforms[i].value) ]_vars

\* C10 as amended: after every rendered frame the entry of a declaration
\* bound to TIME that had an entry holds the elapsed time of that frame;
\* the first sync pass after the binding was removed sets the entry to the
\* converted value of the last declaration of the list with that name and
\* no binding, which is the declaration's own manual value unless a later
\* declaration shares its name.
C10_BindingOverride ==
  [][ /\ (Rendered =>
            \A i \in TimeBound(customUniforms, uniforms) :
               uniforms'[customUniforms[i].name] = Number(elapsedTime'))
      /\ (SyncEffect =>
            \A i \in Released(customUniforms) :
               uniforms'[customUniforms[i].name]
                 = initialValue(LastUnbound(customUniforms,
                                            customUniforms[i].name))) ]_vars

\* a rendered frame wrote the elapsed time over the manual value in the
\* entry of a declaration bound to TIME, and a sync pass that followed the
\* removal of another declaration's binding left that declaration's entry
\* at the manual value of a later declaration with the same name
C10_Witness ==
  /\ Len(customUniforms) = 2
  /\ released.reconciled
  /\ customUniforms[1].id = released.id
  /\ customUniforms[1].type = FLOAT
  /\ customUniforms[1].binding = NoBinding
  /\ customUniforms[2].binding = NoBinding
  /\ customUniforms[2].name = customUniforms[1].name
  /\ customUniforms[2].value # customUniforms[1].value
  /\ uniforms[customUniforms[1].name] = customUniforms[2].value
  /\ elapsedTime >= 1
  /\ uniforms["u_time"] = Number(elapsedTime)
  /\ Idle

\* slot i (0-based) of an array of four Vector3
Slot(v, i) == <<v.c[3 * i + 1], v.c[3 * i + 2], v.c[3 * i + 3]>>

Min(a, b) == IF a <= b THEN a ELSE b

\* C11: after the light sync for a list of N lights, slot i < min(4, N)
\* holds the position, colour and intensity of the i-th light of the list,
\* the table still has its four slots and no more, and every slot from
\* min(4, N) to 3 has intensity 0.
C11_LightSlots ==
  [][SyncEffect =>
       LET N == Len(lights)
           lightPositions == uniforms'["u_lightPos"]
           lightColors == uniforms'["u_lightColor"]
           lightIntensities == uniforms'["u_lightIntensity"]
       IN  /\ Len(lightPositions.c) = 12
           /\ Len(lightColors.c) = 12
           /\ Len(lightIntensities.c) = 4
           /\ \A i \in 0..(Min(4, N) - 1) :
                 /\ Slot(lightPositions, i) = lights[i + 1].position
                 /\ Slot(lightColors, i) = Color(lights[i + 1].color)
                 /\ lightIntensities.c[i + 1] = lights[i + 1].intensity
           /\ \A i \in Min(4, N)..3 : lightIntensities.c[i + 1] = 0]_vars

\* two lights are left of a longer list: slot 2 still has the position of
\* the light that was removed, and its intensity is 0
C11_Witness ==
  /\ Len(lights) = 2
  /\ Idle
  /\ Slot(uniforms["u_lightPos"], 2) # <<0, 0, 0>>
  /\ uniforms["u_lightIntensity"] = Array(<<lights[1].intensity,
                                            lights[2].intensity, 0, 0>>)

\* C12: a validation attempt never makes another attempt due: the pair it
\* validated, failing or not, is validated again only after the user
\* submits again.
C12_NoRetry ==
  [][ValidationEffect => ~effectPending']_vars

\* C13: the material identity stays the same from one safe pair to the
\* next if and only if the two pairs are equal in both strings.
C13_KeyIdentity ==
  [][(materialKey(safeVertex', safeFragment') = materialKey(safeVertex, safeFragment))
       <=> (SafePair' = SafePair)]_vars

\* the material identity changes in this step
Rebuilt ==
  materialKey(safeVertex', safeFragment') # materialKey(safeVertex, safeFragment)

Reconciled == SyncCustomUniforms(uniforms, customUniforms) = uniforms

LightNames == {"u_lightPos", "u_lightColor", "u_lightIntensity"}

\* the same object, whatever its wrap mode
SameObject(a, b) == [a EXCEPT !.wrap = ""] = [b EXCEPT !.wrap = ""]

\* what the claim gives the entry named n after a pass over decls: the
\* declarations named n are applied in list order
Reconciliation(table, decls, n) ==
  LET D == {i \in 1..Len(decls) : decls[i].name = n}
      U == {i \in D : decls[i].binding = NoBinding}
      first == CHOOSE i \in D : \A j \in D : i <= j
      last == CHOOSE i \in U : \A j \in U : j <= i
  IN  IF U # {} THEN initialValue(decls[last])
      ELSE IF n \in DOMAIN table THEN table[n]
      ELSE initialValue(decls[first])

\* C15: a reconciliation pass applies the declarations in list order: an
\* entry that exists is set to the converted value of an unbound
\* declaration and left as it is by a bound one, a missing entry is
\* created with the converted value; the other entries stay.
C15_Reconciliation ==
  [][SyncEffect =>
       /\ DOMAIN uniforms' = DOMAIN uniforms
                               \cup {customUniforms[i].name : i \in 1..Len(customUniforms)}
       /\ \A n \in (DOMAIN uniforms') \ LightNames :
             IF \E i \in 1..Len(customUniforms) : customUniforms[i].name = n
             THEN SameObject(uniforms'[n], Reconciliation(uniforms, customUniforms, n))
             ELSE uniforms'[n] = uniforms[n]]_vars

\* after a pass the entry of a declaration bound to TIME still has the
\* time a frame wrote, not the declaration's value, and the entry of an
\* unbound declaration has the value typed for it
C15_Witness ==
  /\ Len(customUniforms) = 2
  /\ customUniforms[1].binding = "TIME"
  /\ customUniforms[2].binding = NoBinding
  /\ customUniforms[2].value = Number(15)
  /\ customUniforms[1].name # customUniforms[2].name
  /\ uniforms[customUniforms[1].name] = Number(elapsedTime)
  /\ uniforms[customUniforms[1].name] # customUniforms[1].value
  /\ uniforms[customUniforms[2].name] = Number(15)
  /\ Idle

\* the oracle was asked to link in the attempt
LinkAttempted(calls) ==
  \E i \in 1..Len(calls) : calls[i].op = "linkProgram"

\* the labels a diagnostic has
Labels(msg) ==
  {msg[i].s : i \in {j \in 1..Len(msg) : msg[j].kind = "txt"}}
    \cap {StageLabel("vertex"), StageLabel("fragment"), StageLabel("link")}

\* C16: when the vertex stage fails, alone or with the fragment stage,
\* the diagnostic is the vertex label and the vertex log normalized with
\* the vertex offset, with no fragment or link label; when only the
\* fragment stage fails it is the fragment label and the fragment log
\* normalized with the fragment offset; the oracle is asked to link if
\* and only if both stages compiled.
C16_FirstFailure ==
  [][ValidationEffect =>
       LET vsOK == COMPILE_STATUS(VERTEX_SHADER,
                                  THREE_VERTEX_PREFIX \o <<Txt(activeVertex)>>)
           fsOK == COMPILE_STATUS(FRAGMENT_SHADER,
                                  THREE_FRAGMENT_PREFIX \o <<Txt(activeFragment)>>)
       IN  /\ (~vsOK =>
                 /\ errorMsg' = <<Txt(StageLabel("vertex")), NL>>
                                   \o ExpectedLog("vertex")
                 /\ Labels(errorMsg') = {StageLabel("vertex")})
           /\ (vsOK /\ ~fsOK =>
                 /\ errorMsg' = <<Txt(StageLabel("fragment")), NL>>
                                   \o ExpectedLog("fragment")
                 /\ Labels(errorMsg') = {StageLabel("fragment")})
           /\ (LinkAttempted(gl'.calls) <=> (vsOK /\ fsOK))]_vars

\* an attempt on a pair whose two stages fail has reported the vertex
\* failure
C16_Witness ==
  /\ gl.vertexShader = "broken.vert"
  /\ gl.fragmentShader = "broken.frag"
  /\ gl.outcome = "vertex"
  /\ errorMsg # NoError
  /\ errorMsg[1] = Txt("VERTEX SHADER ERROR:")
  /\ ~LinkAttempted(gl.calls)
  /\ ~effectPending

\* the sampler declarations whose name no other declaration has and whose
\* URL is the URL of the texture bound under that name
SameTexture(decls, table) ==
  {i \in 1..Len(decls) :
     /\ decls[i].type = SAMPLER_2D
     /\ decls[i].value.kind = "string"
     /\ \A j \in 1..Len(decls) : decls[j].name = decls[i].name => j = i
     /\ decls[i].name \in DOMAIN table
     /\ table[decls[i].name].kind = "Texture"
     /\ table[decls[i].name].s = decls[i].value.s}

\* C17: a pass over declarations whose URLs did not change, as after a
\* change of wrap mode alone, keeps the texture object bound under each
\* name, image included (no load is started), and gives it the
\* declaration's wrap mode.
C17_WrapOnly ==
  [][SyncEffect =>
       \A i \in SameTexture(customUniforms, uniforms) :
          uniforms'[customUniforms[i].name]
            = [uniforms[customUniforms[i].name]
                 EXCEPT !.wrap = getWrapMode(customUniforms[i].wrap)]]_vars

\* C18: a decode that completes for a texture whose declaration is no
\* longer in the list (no declaration has the name of the entry that holds
\* it; names are not edited here) changes nothing in the uniform table.
C18_StaleDecode ==
  [][\A name \in DOMAIN uniforms :
        (DecodeComplete(name) /\ ~some(customUniforms, name)) =>
          uniforms' = uniforms]_vars

\* C19: with a declaration list in which some value does not have the
\* shape of its declared type, bound or not, neither the reconciliation
\* pass nor a later frame callback raises an error.
C19_NoRaise ==
  (\E i \in 1..Len(customUniforms) : ~WellShaped(customUniforms[i]))
    => (~crashed /\ ~frameThrew)

\* the sources the compiler was handed in the last attempt, and the user
\* source each was built from
Assembled ==
  { [source |-> gl.vsSource, preamble |-> THREE_VERTEX_PREFIX,
     user |-> gl.vertexShader, offset |-> VERTEX_OFFSET],
    [source |-> gl.fsSource, preamble |-> THREE_FRAGMENT_PREFIX,
     user |-> gl.fragmentShader, offset |-> FRAGMENT_OFFSET] }

\* the line of source on which its piece i starts: one more than the line
\* breaks before it
LineOf(source, i) ==
  1 + Cardinality({j \in 1..(i - 1) : source[j] = NL})

\* the piece of source that is the text user, if any
PieceOf(source, user) == {i \in 1..Len(source) : source[i] = Txt(user)}

\* C20: in every attempt and for each stage, the source handed to the
\* compiler is the stage preamble followed by the user source as one
\* unchanged piece, and the user source starts on line offset + 1 of it
\* (so its line k is line offset + k).
C20_Assembly ==
  gl # NoContext =>
    \A a \in Assembled :
       /\ Len(a.source) = Len(a.preamble) + 1
       /\ SubSeq(a.source, 1, Len(a.preamble)) = a.preamble
       /\ PieceOf(a.source, a.user) = {Len(a.source)}
       /\ LineOf(a.source, Len(a.source)) = a.offset + 1

\* an attempt on a pair the user typed, neither stage a preset source
C20_Witness ==
  /\ gl.vertexShader = "broken.vert"
  /\ gl.fragmentShader = "mismatch.frag"
  /\ PieceOf(gl.vsSource, "broken.vert") # {}
  /\ PieceOf(gl.fsSource, "mismatch.frag") # {}

DraftPair == <<editorVertex, editorFragment>>

\* C21: a commit registers a submission of the draft pair as it is at the
\* commit event; a draft edit leaves every registered submission as it
\* is; when the delay expires the submitted pair becomes exactly the
\* registered pair, whatever the drafts are by then.
C21_CommitSnapshot ==
  [][/\ handleRun =>
          timers' = Append(timers, [vertex |-> editorVertex,
                                    fragment |-> editorFragment])
     /\ (DraftPair' # DraftPair) => timers' = timers
     /\ TimerFire =>
          /\ ActivePair' = <<Head(timers).vertex, Head(timers).fragment>>
          /\ timers' = Tail(timers)]_vars

\* a commit is waiting for its delay and a draft was edited since
C21_Witness ==
  /\ timers # <<>>
  /\ <<timers[1].vertex, timers[1].fragment>> # DraftPair
  /\ <<timers[1].vertex, timers[1].fragment>> # ActivePair
  /\ activePresetIndex = 1
  /\ DraftPair # PresetPair(1)

\* C22: the light list made by the light controls from the list App starts
\* with never holds more than 4 lights.
C22_AtMostFour == Len(lights) <= 4

\* four lights, three of them added, and a further click on the add
\* button that the counter of the model would still allow
C22_Witness ==
  /\ Len(lights) = 4
  /\ nextId < MaxAdds
  /\ \E i \in 1..4 : lights[i].id = RandomId(nextId)

\* the shape useMemo gives each built-in slot (types.ts 351-362)
BuiltinShape(name, v) ==
  CASE name = "u_time" -> v.kind = "number"
    [] name \in {"u_mouse", "u_resolution"} -> v.kind = "Vector2"
    [] name = "u_cameraPosition" -> v.kind = "Vector3"
    [] name \in {"u_lightPos", "u_lightColor"} ->
         v.kind = "Vector3[]" /\ Len(v.c) = 12
    [] name = "u_lightIntensity" -> IsArray(v) /\ Len(v.c) = 4
    [] OTHER -> TRUE

\* C23: every built-in slot holds a value of its built-in shape, whatever
\* the custom declarations are named, and neither the light sync nor the
\* frame callback has thrown on one.
C23_BuiltinShapes ==
  /\ \A name \in BuiltinNames : BuiltinShape(name, uniforms[name])
  /\ ~crashed
  /\ ~frameThrew

\* C24: when a frame runs, the entry of every MOUSE-bound declaration holds
\* a 2-vector.
C24_MouseTarget ==
  [][(\E pointer \in Pointers : Frame(pointer)) =>
       \A i \in 1..Len(customUniforms) :
          (customUniforms[i].binding = "MOUSE"
             /\ customUniforms[i].name \in DOMAIN uniforms)
            => uniforms[customUniforms[i].name].kind = "Vector2"]_vars

\* C25: when the drafts and the submitted pair are the pair of the preset
\* last loaded, a timer that fires leaves the submitted pair that preset's
\* pair (a timer started before the load carries another pair).
C25_PresetStays ==
  [][(/\ TimerFire
      /\ DraftPair = PresetPair(activePresetIndex)
      /\ ActivePair = PresetPair(activePresetIndex))
       => ActivePair' = PresetPair(activePresetIndex)]_vars

\* C26: when the read k completes, the declaration list is the list of
\* just before with the value of the declaration that has the read's id
\* replaced by the result, and nothing else changed.
C26_OnlyValue ==
  [][\A k \in 1..MaxReads :
        ReadComplete(k) =>
          customUniforms' =
            [i \in 1..Len(customUniforms) |->
               IF customUniforms[i].id = reads[k].uniformId
               THEN [customUniforms[i] EXCEPT !.value = reads[k].result]
               ELSE customUniforms[i]]]_vars

\* no commit is waiting for its delay and no effect is due
Quiescent == timers = <<>> /\ ~effectPending /\ ~syncPending

\* C27: in a quiescent state a diagnostic is displayed exactly when the
\* submitted pair fails validation.
C27_DiagnosticIff ==
  Quiescent => ((errorMsg # NoError) <=> ~PairValid(ActivePair))

\* a failing pair was committed again unchanged and everything settled
C27_Witness ==
  /\ Quiescent
  /\ errorMsg # NoError
  /\ ~PairValid(ActivePair)
  /\ DraftPair = ActivePair
  /\ <<gl.vertexShader, gl.fragmentShader>> = ActivePair

\* C28: whenever the validation effect is due, the chain of attempts and
\* callbacks it starts comes to a state where it is no longer due.
C28_Settles == effectPending ~> ~effectPending

\* the chain has settled after an attempt that failed at the link stage
C28_Witness ==
  /\ ~effectPending
  /\ gl.outcome = "link"
  /\ errorMsg # NoError
  /\ isConsoleOpen

\* C29: while a diagnostic is displayed, a collapsed console opens only by
\* a toggle or by the report of an attempt on a newly submitted pair.
C29_StaysCollapsed ==
  [][(errorMsg # NoError /\ ~isConsoleOpen /\ isConsoleOpen') =>
       \/ ToggleConsole
       \/ <<gl.vertexShader, gl.fragmentShader>> # ActivePair]_vars

\* C30: the names of the declarations are pairwise distinct.
C30_DistinctNames ==
  \A i, j \in 1..Len(customUniforms) :
     customUniforms[i].name = customUniforms[j].name => i = j

====
